---- MODULE Spec2Model ----
(***************************************************************************)
(* State-machine model of HueDtlsController (the streaming session         *)
(* controller of artnet-hue-entertainment): the DTLS session lifecycle,    *)
(* the 2:1 update throttle, the keepalive timer and the frame encoder.     *)
(*                                                                         *)
(* Time is counted in milliseconds and advances in granules of half a      *)
(* keepalive period, so that an update can fall exactly on a tick or       *)
(* strictly between two ticks.  One controller performs one connect().     *)
(***************************************************************************)
EXTENDS Integers, Sequences, FiniteSets, TLC

VARIABLES
    host,                    \* constructor argument this.host
    pc,                      \* position of the connect() coroutine
    transport,               \* state of the DTLS socket made by dtls.connect
    socket,                  \* this.socket # null
    opened,                  \* this.opened
    skip,                    \* this.skip
    lastUpdate,              \* this.lastUpdate (None = null)
    lastUpdateTimestamp,     \* this.lastUpdateTimestamp (None = null)
    updateKeepaliveTimeout,  \* this.updateKeepaliveTimeout (None = null, else next due time)
    now,                     \* Date.now()
    pendingEnd,              \* close() invocations suspended on socket.end(cb)
    emitted,                 \* notifications emitted by the controller, in order
    writes,                  \* number of socket.write calls so far
    lastFrame,               \* payload of the latest socket.write (None before the first)
    lastTx,                  \* time of the latest socket.write (None before the first)
    calls,                   \* number of sendUpdate calls by the caller
    connCalls,               \* number of those made while the session was Connected
    connSent,                \* number of those that wrote a frame
    closeCalls,              \* log of caller close() calls: session state at the call
    errors,                  \* number of transport 'error' events
    encIn,                   \* encoder harness: the batch under construction
    encOut                   \* encoder harness: the frame produced for encIn (None before)

sessionVars == <<host, pc, transport, socket, opened, skip, lastUpdate,
                 lastUpdateTimestamp, updateKeepaliveTimeout, now, pendingEnd,
                 emitted, writes, lastFrame, lastTx, calls, connCalls, connSent,
                 closeCalls, errors>>
encVars == <<encIn, encOut>>
vars == <<sessionVars, encVars>>

None == <<>>
Some(x) == <<x>>

-----------------------------------------------------------------------------
(* Bounds of the model *)
MaxSteps == 8        \* granules of time the clock may advance
MaxCalls == 3        \* sendUpdate calls by the caller
MaxCloseCalls == 2   \* close() calls by the caller
MaxErrors == 1       \* transport 'error' events
MaxLights == 3       \* entries of a batch in the encoder harness

(* Program constants *)
TickPeriod == 1000        \* setInterval(..., 1000)
FreshnessWindow == 2000   \* Date.now() - lastUpdateTimestamp <= 2000
HeaderLen == 16           \* Buffer.alloc(16 + ...)
EntryLen == 9             \* updates.length * 9

Granule == TickPeriod \div 2

-----------------------------------------------------------------------------
(* Frame encoder: the buffer operations of sendUpdatePacket *)

PACKET_HEADER == <<72, 117, 101, 83, 116, 114, 101, 97, 109>>

\* Buffer.alloc(n, 0x00)
Alloc(n) == [i \in 1..n |-> 0]

\* the outcome of a message construction that a RangeError of a write* call aborted
Thrown == <<-1>>

\* source.copy(target, off) and the write* primitives: bytes placed at a 0-based
\* offset; nothing more is written once a call has thrown
CopyAt(buf, bytes, off) ==
    IF buf = Thrown THEN Thrown
    ELSE [i \in 1..Len(buf) |->
            IF i > off /\ i <= off + Len(bytes) THEN bytes[i - off] ELSE buf[i]]

writeUInt8(buf, v, off) == CopyAt(buf, <<v>>, off)

\* Buffer.writeUInt16BE throws ERR_OUT_OF_RANGE for a value outside 0..65535
writeUInt16BE(buf, v, off) ==
    IF v \in 0..65535
    THEN CopyAt(buf, <<v \div 256, v % 256>>, off)
    ELSE Thrown

\* faulty variant: the B channel written one byte early (offset + 6)
WriteEntry_BlueOffset(buf, update, offset) ==
    LET b0 == writeUInt8(buf, 0, offset)
        b1 == writeUInt16BE(b0, update.lightId, offset + 1)
        b2 == writeUInt16BE(b1, update.color[1], offset + 3)
        b3 == writeUInt16BE(b2, update.color[2], offset + 5)
    IN  writeUInt16BE(b3, update.color[3], offset + 6)

\* the body of the forEach callback for one update at the running offset
WriteEntry(buf, update, offset) ==
    LET b0 == writeUInt8(buf, 0, offset)
        b1 == writeUInt16BE(b0, update.lightId, offset + 1)
        b2 == writeUInt16BE(b1, update.color[1], offset + 3)
        b3 == writeUInt16BE(b2, update.color[2], offset + 5)
    IN  writeUInt16BE(b3, update.color[3], offset + 7)

\* faulty variant: the running offset is not advanced (offset += 9 missing)
RECURSIVE ForEach_NoAdvance(_, _, _, _)
ForEach_NoAdvance(buf, updates, i, offset) ==
    IF i > Len(updates) THEN buf
    ELSE ForEach_NoAdvance(WriteEntry(buf, updates[i], offset), updates, i + 1, offset)

RECURSIVE ForEach(_, _, _, _)
ForEach(buf, updates, i, offset) ==
    IF i > Len(updates) THEN buf
    ELSE ForEach(WriteEntry(buf, updates[i], offset), updates, i + 1, offset + EntryLen)

\* faulty variant: the major version written at offset 10 instead of 9
Encode_VersionOffset(updates) ==
    LET m0 == Alloc(HeaderLen + Len(updates) * EntryLen)
        m1 == CopyAt(m0, PACKET_HEADER, 0)
        m2 == writeUInt8(m1, 1, 10)
        m5 == writeUInt16BE(m2, 0, 12)
        m6 == writeUInt8(m5, 0, 14)
        m7 == writeUInt8(m6, 0, 15)
    IN  ForEach(m7, updates, 1, HeaderLen)

\* the message built by sendUpdatePacket
Encode(updates) ==
    LET m0 == Alloc(HeaderLen + Len(updates) * EntryLen)
        m1 == CopyAt(m0, PACKET_HEADER, 0)
        m2 == writeUInt8(m1, 1, 9)
        m3 == writeUInt8(m2, 0, 10)
        m4 == writeUInt8(m3, 0, 11)
        m5 == writeUInt16BE(m4, 0, 12)
        m6 == writeUInt8(m5, 0, 14)
        m7 == writeUInt8(m6, 0, 15)
    IN  ForEach(m7, updates, 1, HeaderLen)

-----------------------------------------------------------------------------
(* Inputs *)

Light(id, r, g, b) == [lightId |-> id, color |-> <<r, g, b>>]

\* batches the caller submits to sendUpdate
Batches == { <<>>, <<Light(1, 0, 65535, 0)>> }

\* hosts given to the constructor, and the ones ip6addr.parse accepts
Hosts == {"192.168.1.10", "bridge.local"}
ParseOk(h) == h = "192.168.1.10"

\* entries the encoder harness draws from
LightIds == {0, 1, 258, 65535}
Colors == {<<0, 65535, 0>>, <<65535, 0, 0>>, <<4660, 22136, 255>>}
Entries == {[lightId |-> id, color |-> c] : id \in LightIds, c \in Colors}

\* entries with a light ID or a color component outside 0..65535 among them
WideLightIds == {1, 65536, -1}
WideColors == {<<0, 65535, 0>>, <<65536, 0, 0>>, <<0, 0, 70000>>}
WideEntries == {[lightId |-> id, color |-> c] : id \in WideLightIds, c \in WideColors}

-----------------------------------------------------------------------------
(* Session state of the specification's state machine, read off the fields *)

Emitted(e) == \E i \in 1..Len(emitted) : emitted[i] = e
Count(e) == Cardinality({i \in 1..Len(emitted) : emitted[i] = e})

SessionState ==
    IF opened THEN "Connected"
    ELSE IF pendingEnd > 0 THEN "Closing"
    ELSE IF Emitted("close") THEN "Closed"
    ELSE IF transport = "handshaking" THEN "Handshaking"
    ELSE "Disconnected"

-----------------------------------------------------------------------------
Init ==
    /\ host \in Hosts
    /\ pc = "idle"
    /\ transport = "none"
    /\ socket = FALSE
    /\ opened = FALSE
    /\ skip = FALSE
    /\ lastUpdate = None
    /\ lastUpdateTimestamp = None
    /\ updateKeepaliveTimeout = None
    /\ now = 0
    /\ pendingEnd = 0
    /\ emitted = <<>>
    /\ writes = 0
    /\ lastFrame = None
    /\ lastTx = None
    /\ calls = 0
    /\ connCalls = 0
    /\ connSent = 0
    /\ closeCalls = <<>>
    /\ errors = 0
    /\ encIn = <<>>
    /\ encOut = None

-----------------------------------------------------------------------------
(* Methods of the controller, as effects on its fields *)

\* faulty variant: the write is not guarded by this.opened
sendUpdatePacket_NoOpenedCheck(updates) ==
    IF socket
    THEN /\ writes' = writes + 1
         /\ lastFrame' = Some(Encode(updates))
         /\ lastTx' = Some(now)
    ELSE UNCHANGED <<writes, lastFrame, lastTx>>

\* sendUpdatePacket: encode, then write only if opened and the socket is set
sendUpdatePacket(updates) ==
    IF opened /\ socket
    THEN /\ writes' = writes + 1
         /\ lastFrame' = Some(Encode(updates))
         /\ lastTx' = Some(now)
    ELSE UNCHANGED <<writes, lastFrame, lastTx>>

\* faulty variant: the early return on !this.opened is missing
close_NoGuard ==
    /\ opened' = FALSE
    /\ pendingEnd' = IF socket THEN pendingEnd + 1 ELSE pendingEnd

\* faulty variant: the early return tests this.socket === null instead of !this.opened
close_GuardSocket ==
    IF ~socket
    THEN UNCHANGED <<opened, pendingEnd>>
    ELSE /\ opened' = FALSE
         /\ pendingEnd' = pendingEnd + 1

\* close(): returns at once unless opened; else clears opened and awaits socket.end
close ==
    IF ~opened
    THEN UNCHANGED <<opened, pendingEnd>>
    ELSE /\ opened' = FALSE
         /\ pendingEnd' = IF socket THEN pendingEnd + 1 ELSE pendingEnd

\* faulty variant: a dropped call does not re-arm the throttle
sendUpdate_NoRearm(updates) ==
    IF ~socket \/ ~opened
    THEN UNCHANGED <<skip, lastUpdate, lastUpdateTimestamp, writes, lastFrame, lastTx>>
    ELSE IF skip
    THEN UNCHANGED <<skip, lastUpdate, lastUpdateTimestamp, writes, lastFrame, lastTx>>
    ELSE /\ skip' = TRUE
         /\ lastUpdate' = Some(updates)
         /\ lastUpdateTimestamp' = Some(now)
         /\ sendUpdatePacket(updates)

\* faulty variant: an admitted call does not record its timestamp
sendUpdate_NoTimestamp(updates) ==
    IF ~socket \/ ~opened
    THEN UNCHANGED <<skip, lastUpdate, lastUpdateTimestamp, writes, lastFrame, lastTx>>
    ELSE IF skip
    THEN /\ skip' = FALSE
         /\ UNCHANGED <<lastUpdate, lastUpdateTimestamp, writes, lastFrame, lastTx>>
    ELSE /\ skip' = TRUE
         /\ lastUpdate' = Some(updates)
         /\ UNCHANGED lastUpdateTimestamp
         /\ sendUpdatePacket(updates)

\* faulty variant: a dropped call keeps its batch as the last update
sendUpdate_Buffering(updates) ==
    IF ~socket \/ ~opened
    THEN UNCHANGED <<skip, lastUpdate, lastUpdateTimestamp, writes, lastFrame, lastTx>>
    ELSE IF skip
    THEN /\ skip' = FALSE
         /\ lastUpdate' = Some(updates)
         /\ UNCHANGED <<lastUpdateTimestamp, writes, lastFrame, lastTx>>
    ELSE /\ skip' = TRUE
         /\ lastUpdate' = Some(updates)
         /\ lastUpdateTimestamp' = Some(now)
         /\ sendUpdatePacket(updates)

\* faulty variant: the throttle is consulted before the connected check
sendUpdate_ThrottleFirst(updates) ==
    IF skip
    THEN /\ skip' = FALSE
         /\ UNCHANGED <<lastUpdate, lastUpdateTimestamp, writes, lastFrame, lastTx>>
    ELSE IF ~socket \/ ~opened
    THEN /\ skip' = TRUE
         /\ UNCHANGED <<lastUpdate, lastUpdateTimestamp, writes, lastFrame, lastTx>>
    ELSE /\ skip' = TRUE
         /\ lastUpdate' = Some(updates)
         /\ lastUpdateTimestamp' = Some(now)
         /\ sendUpdatePacket(updates)

\* sendUpdate(updates)
sendUpdate(updates) ==
    IF ~socket \/ ~opened
    THEN UNCHANGED <<skip, lastUpdate, lastUpdateTimestamp, writes, lastFrame, lastTx>>
    ELSE IF skip
    THEN /\ skip' = FALSE
         /\ UNCHANGED <<lastUpdate, lastUpdateTimestamp, writes, lastFrame, lastTx>>
    ELSE /\ skip' = TRUE
         /\ lastUpdate' = Some(updates)
         /\ lastUpdateTimestamp' = Some(now)
         /\ sendUpdatePacket(updates)

\* faulty variant: the freshness test is strict (< 2000)
updateKeepalive_Strict ==
    /\ UNCHANGED <<skip, lastUpdate, lastUpdateTimestamp>>
    /\ IF lastUpdateTimestamp # None /\ now - lastUpdateTimestamp[1] < FreshnessWindow
       THEN UNCHANGED <<writes, lastFrame, lastTx>>
       ELSE IF lastUpdate # None
       THEN sendUpdatePacket(lastUpdate[1])
       ELSE UNCHANGED <<writes, lastFrame, lastTx>>

\* faulty variant: the keepalive passes through the throttle flag
updateKeepalive_Throttled ==
    /\ UNCHANGED <<skip, lastUpdate, lastUpdateTimestamp>>
    /\ IF lastUpdateTimestamp # None /\ now - lastUpdateTimestamp[1] <= FreshnessWindow
       THEN UNCHANGED <<writes, lastFrame, lastTx>>
       ELSE IF lastUpdate # None /\ ~skip
       THEN sendUpdatePacket(lastUpdate[1])
       ELSE UNCHANGED <<writes, lastFrame, lastTx>>

\* faulty variant: a keepalive retransmission refreshes the timestamp
updateKeepalive_Refreshing ==
    IF lastUpdateTimestamp # None /\ now - lastUpdateTimestamp[1] <= FreshnessWindow
    THEN UNCHANGED <<skip, lastUpdate, lastUpdateTimestamp, writes, lastFrame, lastTx>>
    ELSE IF lastUpdate # None
    THEN /\ sendUpdatePacket(lastUpdate[1])
         /\ lastUpdateTimestamp' = Some(now)
         /\ UNCHANGED <<skip, lastUpdate>>
    ELSE UNCHANGED <<skip, lastUpdate, lastUpdateTimestamp, writes, lastFrame, lastTx>>

\* updateKeepalive()
updateKeepalive ==
    /\ UNCHANGED <<skip, lastUpdate, lastUpdateTimestamp>>
    /\ IF lastUpdateTimestamp # None /\ now - lastUpdateTimestamp[1] <= FreshnessWindow
       THEN UNCHANGED <<writes, lastFrame, lastTx>>
       ELSE IF lastUpdate # None
       THEN sendUpdatePacket(lastUpdate[1])
       ELSE UNCHANGED <<writes, lastFrame, lastTx>>

-----------------------------------------------------------------------------
(* Steps *)

\* faulty variant: the host is not parsed before the transport is built
CallConnect_NoParse ==
    /\ pc = "idle"
    /\ \E built \in BOOLEAN :
          IF built
          THEN pc' = "awaiting" /\ transport' = "handshaking"
          ELSE pc' = "rejected" /\ UNCHANGED transport
    /\ UNCHANGED <<host, socket, opened, skip, lastUpdate, lastUpdateTimestamp,
                   updateKeepaliveTimeout, now, pendingEnd, emitted, writes,
                   lastFrame, lastTx, calls, connCalls, connSent, closeCalls,
                   errors, encVars>>

\* connect() up to the await: parse the host, build the config, call dtls.connect
CallConnect ==
    /\ pc = "idle"
    /\ \E built \in BOOLEAN :
          IF ParseOk(host) /\ built
          THEN pc' = "awaiting" /\ transport' = "handshaking"
          ELSE pc' = "rejected" /\ UNCHANGED transport
    /\ UNCHANGED <<host, socket, opened, skip, lastUpdate, lastUpdateTimestamp,
                   updateKeepaliveTimeout, now, pendingEnd, emitted, writes,
                   lastFrame, lastTx, calls, connCalls, connSent, closeCalls,
                   errors, encVars>>

\* faulty variant: connect() forgets to store the socket
ConnectResume_NoSocket ==
    /\ pc = "awaiting"
    /\ pc' = "resolved"
    /\ updateKeepaliveTimeout' = Some(now + TickPeriod)
    /\ UNCHANGED <<host, transport, socket, opened, skip, lastUpdate,
                   lastUpdateTimestamp, now, pendingEnd, emitted, writes, lastFrame,
                   lastTx, calls, connCalls, connSent, closeCalls, errors, encVars>>

\* faulty variant: connect() does not start the keepalive timer
ConnectResume_NoTimer ==
    /\ pc = "awaiting"
    /\ pc' = "resolved"
    /\ socket' = TRUE
    /\ UNCHANGED <<host, transport, opened, skip, lastUpdate, lastUpdateTimestamp,
                   updateKeepaliveTimeout, now, pendingEnd, emitted, writes, lastFrame,
                   lastTx, calls, connCalls, connSent, closeCalls, errors, encVars>>

\* connect() after the await: register the callbacks, start the timer, store the socket
ConnectResume ==
    /\ pc = "awaiting"
    /\ pc' = "resolved"
    /\ updateKeepaliveTimeout' = Some(now + TickPeriod)
    /\ socket' = TRUE
    /\ UNCHANGED <<host, transport, opened, skip, lastUpdate, lastUpdateTimestamp,
                   now, pendingEnd, emitted, writes, lastFrame, lastTx, calls,
                   connCalls, connSent, closeCalls, errors, encVars>>

\* socket.once('connect', ...): the handshake completed
OnConnect ==
    /\ pc = "resolved"
    /\ transport = "handshaking"
    /\ transport' = "connected"
    /\ opened' = TRUE
    /\ emitted' = Append(emitted, "connected")
    /\ UNCHANGED <<host, pc, socket, skip, lastUpdate, lastUpdateTimestamp,
                   updateKeepaliveTimeout, now, pendingEnd, writes, lastFrame,
                   lastTx, calls, connCalls, connSent, closeCalls, errors, encVars>>

\* faulty variant: the 'error' callback only logs
OnError_NoClose ==
    /\ pc = "resolved"
    /\ transport \in {"handshaking", "connected"}
    /\ errors < MaxErrors
    /\ errors' = errors + 1
    /\ UNCHANGED <<host, pc, transport, socket, opened, pendingEnd, skip, lastUpdate,
                   lastUpdateTimestamp, updateKeepaliveTimeout, now, emitted, writes,
                   lastFrame, lastTx, calls, connCalls, connSent, closeCalls, encVars>>

\* socket.on('error', ...)
OnError ==
    /\ pc = "resolved"
    /\ transport \in {"handshaking", "connected"}
    /\ errors < MaxErrors
    /\ errors' = errors + 1
    /\ close
    /\ UNCHANGED <<host, pc, transport, socket, skip, lastUpdate, lastUpdateTimestamp,
                   updateKeepaliveTimeout, now, emitted, writes, lastFrame, lastTx,
                   calls, connCalls, connSent, closeCalls, encVars>>

\* socket.on('close', ...): the transport shut down (remote close, failure or after end)
OnClose ==
    /\ pc = "resolved"
    /\ transport \in {"handshaking", "connected"}
    /\ transport' = "closed"
    /\ close
    /\ UNCHANGED <<host, pc, socket, skip, lastUpdate, lastUpdateTimestamp,
                   updateKeepaliveTimeout, now, emitted, writes, lastFrame, lastTx,
                   calls, connCalls, connSent, closeCalls, errors, encVars>>

\* the caller invokes close()
CallClose ==
    /\ Len(closeCalls) < MaxCloseCalls
    /\ closeCalls' = Append(closeCalls, SessionState)
    /\ close
    /\ UNCHANGED <<host, pc, transport, socket, skip, lastUpdate, lastUpdateTimestamp,
                   updateKeepaliveTimeout, now, emitted, writes, lastFrame, lastTx,
                   calls, connCalls, connSent, errors, encVars>>

\* the callback of socket.end fires: close() resumes and emits 'close'
EndCallback ==
    /\ pendingEnd > 0
    /\ pendingEnd' = pendingEnd - 1
    /\ emitted' = Append(emitted, "close")
    /\ UNCHANGED <<host, pc, transport, socket, opened, skip, lastUpdate,
                   lastUpdateTimestamp, updateKeepaliveTimeout, now, writes,
                   lastFrame, lastTx, calls, connCalls, connSent, closeCalls,
                   errors, encVars>>

\* the caller invokes sendUpdate(updates)
CallSendUpdate ==
    /\ calls < MaxCalls
    /\ calls' = calls + 1
    /\ \E updates \in Batches : sendUpdate(updates)
    /\ connCalls' = IF opened /\ socket THEN connCalls + 1 ELSE connCalls
    /\ connSent' = IF opened /\ socket /\ writes' # writes THEN connSent + 1 ELSE connSent
    /\ UNCHANGED <<host, pc, transport, socket, opened, updateKeepaliveTimeout, now,
                   pendingEnd, emitted, closeCalls, errors, encVars>>

\* the interval timer fires updateKeepalive, exactly one period after the last tick
Tick ==
    /\ updateKeepaliveTimeout # None
    /\ updateKeepaliveTimeout[1] = now
    /\ updateKeepalive
    /\ updateKeepaliveTimeout' = Some(now + TickPeriod)
    /\ UNCHANGED <<host, pc, transport, socket, opened, now, pendingEnd, emitted,
                   calls, connCalls, connSent, closeCalls, errors, encVars>>

\* the clock advances by one granule; a due tick runs before the clock moves past
\* it.  The clock is read only by updateKeepalive and by sendUpdate past its
\* connected check, both after the timer was started, so it is counted from there.
Advance ==
    /\ now < MaxSteps * Granule
    /\ updateKeepaliveTimeout # None
    /\ updateKeepaliveTimeout[1] > now
    /\ now' = now + Granule
    /\ UNCHANGED <<host, pc, transport, socket, opened, skip, lastUpdate,
                   lastUpdateTimestamp, updateKeepaliveTimeout, pendingEnd, emitted,
                   writes, lastFrame, lastTx, calls, connCalls, connSent, closeCalls,
                   errors, encVars>>

Next ==
    \/ CallConnect
    \/ ConnectResume
    \/ OnConnect
    \/ OnError
    \/ OnClose
    \/ CallClose
    \/ EndCallback
    \/ CallSendUpdate
    \/ Tick
    \/ Advance

Spec == Init /\ [][Next]_vars

\* the event loop eventually runs the callback of socket.end
LiveSpec == Spec /\ WF_vars(EndCallback)

-----------------------------------------------------------------------------
(* Encoder harness: build a batch entry by entry and encode it *)

EncAppend ==
    /\ Len(encIn) < MaxLights
    /\ \E e \in Entries : encIn' = Append(encIn, e)
    /\ encOut' = None
    /\ UNCHANGED sessionVars

EncRun ==
    /\ encOut = None
    /\ encOut' = Some(Encode(encIn))
    /\ UNCHANGED <<encIn, sessionVars>>

EncNext == EncAppend \/ EncRun

EncSpec == Init /\ [][EncNext]_vars

\* the same harness over entries that need not fit 16 bits
EncAppendWide ==
    /\ Len(encIn) < MaxLights
    /\ \E e \in WideEntries : encIn' = Append(encIn, e)
    /\ encOut' = None
    /\ UNCHANGED sessionVars

EncWideNext == EncAppendWide \/ EncRun

EncWideSpec == Init /\ [][EncWideNext]_vars

-----------------------------------------------------------------------------
(* Properties *)

\* a step of the interval timer: the armed timer is re-armed for its next period
TickStep ==
    /\ updateKeepaliveTimeout # None
    /\ updateKeepaliveTimeout' # updateKeepaliveTimeout

\* a step that emits the notification e
Emits(e) ==
    /\ Len(emitted') = Len(emitted) + 1
    /\ emitted'[Len(emitted')] = e

\* what a keepalive tick on a Connected session does, given whether it is due
KeepaliveTick(due) ==
    (TickStep /\ opened /\ socket) =>
        IF lastUpdate # None /\ due
        THEN /\ writes' = writes + 1
             /\ lastFrame' = lastFrame
             /\ lastFrame' = Some(Encode(lastUpdate[1]))
             /\ lastTx' = Some(now)
        ELSE UNCHANGED <<writes, lastFrame, lastTx>>

(* C1: of the sendUpdate calls made on a Connected session, counted from the
   initial throttle state, exactly ceil(K/2) of the first K have written a frame,
   for every K reached (hence the K-th call writes iff K is odd), whatever
   keepalive ticks ran in between. *)
C1_ThrottleDecimation ==
    /\ connSent = (connCalls + 1) \div 2
    /\ skip = (connCalls % 2 = 1)

C1_Witness ==
    /\ connCalls = 3
    /\ connSent = 2
    /\ writes = 3

(* C2 as claimed: on a Connected session a keepalive tick writes the last
   accepted frame again iff it runs at or after T + 2 s, T being the timestamp
   of the last accepted update; with no accepted update it writes nothing. *)
C2_KeepaliveAtOrAfter ==
    [][KeepaliveTick(now >= lastUpdateTimestamp[1] + FreshnessWindow)]_vars

(* C2 amended: the tick writes iff it runs strictly later than T + 2 s; a tick
   exactly at T + 2 s writes nothing. *)
C2_KeepaliveStrictlyAfter ==
    [][KeepaliveTick(now > lastUpdateTimestamp[1] + FreshnessWindow)]_vars

C2_Witness ==
    /\ opened
    /\ lastUpdateTimestamp # None
    /\ lastTx = Some(lastUpdateTimestamp[1] + FreshnessWindow + TickPeriod)
    /\ writes = 2

(* C3: once a Connected session has been left (by any mix of close() calls and
   transport 'close' / 'error' callbacks) exactly one 'close' notification is
   pending or emitted, and never more than one is emitted. *)
C3_CloseOnce ==
    /\ Count("close") <= 1
    /\ pendingEnd + Count("close") =
          (IF Emitted("connected") /\ ~opened THEN 1 ELSE 0)

C3_Witness ==
    /\ closeCalls = <<"Connected", "Closing">>
    /\ errors >= 1
    /\ transport = "closed"
    /\ emitted = <<"connected", "close">>

(* C4: every step that writes a frame starts in the Connected state: opened is
   set, the transport is connected, no close() is pending and 'close' has not
   been emitted. *)
C4_WriteOnlyConnected ==
    [][writes' # writes =>
          /\ opened /\ socket
          /\ SessionState = "Connected"
          /\ transport = "connected"
          /\ pendingEnd = 0
          /\ ~Emitted("close")]_vars

\* a sendUpdate call outside Connected and a due tick after close, with no write by either
C4_Witness ==
    /\ Emitted("close")
    /\ calls > connCalls
    /\ lastUpdateTimestamp # None
    /\ now > lastUpdateTimestamp[1] + FreshnessWindow + TickPeriod
    /\ lastTx = lastUpdateTimestamp
    /\ writes = 1

(* C5 as claimed: connect() has resolved only if the handshake completed (the
   session was Connected and 'connected' was emitted), and a handshake that
   ended without completing has rejected connect(). *)
C5_ResolvesOnHandshake ==
    /\ pc = "resolved" => Emitted("connected")
    /\ (transport = "closed" /\ ~Emitted("connected")) => pc = "rejected"

(* C5 amended: connect() resolves as soon as the transport object exists, the
   callbacks are registered, the keepalive timer is started and the socket is
   stored, with the handshake still in flight (not Connected, no notification
   yet); Connected is reached only after it has resolved; it rejects only when
   no transport was built, and once resolved it is never turned into a
   rejection, whatever becomes of the handshake. *)
C5_ResolvesBeforeHandshake ==
    /\ [][(pc # "resolved" /\ pc' = "resolved") =>
             /\ transport' = "handshaking"
             /\ ~opened' /\ emitted' = <<>>
             /\ socket' /\ updateKeepaliveTimeout' # None]_vars
    /\ [](opened => pc = "resolved")
    /\ [](pc = "rejected" =>
             transport = "none" /\ ~socket /\ updateKeepaliveTimeout = None)
    /\ [][pc = "resolved" => pc' = "resolved"]_vars

\* the handshake failed after connect() resolved
C5_Witness ==
    /\ pc = "resolved"
    /\ transport = "closed"
    /\ errors >= 1
    /\ emitted = <<>>

(* C6 as claimed: once close() has been called while the handshake was in
   flight, the session is never Connected and never writes a frame. *)
C6_CloseDuringHandshake ==
    (\E i \in 1..Len(closeCalls) : closeCalls[i] = "Handshaking") =>
        (~opened /\ writes = 0)

(* C7: a transport error on a Connected session clears opened and leaves one
   close() pending (Closing); 'close' is emitted only from Closing, at most once,
   and eventually; a session that has left Connected never returns to it. *)
C7_ErrorIsFatal ==
    /\ [][(errors' # errors /\ opened) => (~opened' /\ pendingEnd' = 1)]_vars
    /\ [][(Emitted("connected") /\ ~opened) => ~opened']_vars
    /\ [][Emits("close") => (SessionState = "Closing" /\ pendingEnd' = 0)]_vars
    /\ [](Count("close") <= 1)
    /\ (pendingEnd > 0) ~> Emitted("close")

\* closed by a transport error alone: no caller close(), no transport 'close'
C7_Witness ==
    /\ errors >= 1
    /\ closeCalls = <<>>
    /\ transport = "connected"
    /\ emitted = <<"connected", "close">>

(* C8 as claimed: once 'close' has been emitted the keepalive timer is cancelled
   and no keepalive tick runs. *)
C8_TimerCancelledOnClose ==
    [][Emitted("close") => (updateKeepaliveTimeout = None /\ ~TickStep)]_vars

(* C9: at every keepalive tick on a Connected session with an accepted update,
   the span of three consecutive ticks that ends with this tick (two periods
   long) holds a transmission: the latest write is at most two periods old once
   the tick has run. *)
C9_KeepaliveLiveness ==
    [][(TickStep /\ opened /\ socket /\ lastUpdate # None) =>
          (lastTx' # None /\ now - lastTx'[1] <= 2 * TickPeriod)]_vars

\* the caller stopped after an admitted and a dropped call; two keepalives followed
C9_Witness ==
    /\ opened
    /\ connCalls = 2
    /\ connSent = 1
    /\ writes = 3
    /\ lastTx = Some(lastUpdateTimestamp[1] + FreshnessWindow + 2 * TickPeriod)

(* C10: the frame encoded for a batch of N entries has 16 + 9 * N bytes and
   starts with the magic "HueStream", version 1.0, sequence 0, reserved 0 0,
   color space 0, reserved 0, whatever the batch; one light gives 25 bytes. *)
C10_FrameLengthAndHeader ==
    encOut # None =>
        LET f == encOut[1] IN
        /\ Len(f) = 16 + 9 * Len(encIn)
        /\ SubSeq(f, 1, 16) =
              <<72, 117, 101, 83, 116, 114, 101, 97, 109, 1, 0, 0, 0, 0, 0, 0>>
        /\ Len(encIn) = 1 => Len(f) = 25

C10_Witness ==
    /\ encOut # None
    /\ Len(encIn) = 1
    /\ encIn[1].lightId = 65535
    /\ Len(encOut[1]) = 25

\* reading a frame back by the wire layout: a big-endian uint16 at a 0-based offset,
\* and the entry of index i (from 0) at offset 16 + 9 * i
ReadUInt16BE(f, off) == f[off + 1] * 256 + f[off + 2]

DecodeEntry(f, i) ==
    LET o == 16 + 9 * i IN
    [lightId |-> ReadUInt16BE(f, o + 1),
     color |-> <<ReadUInt16BE(f, o + 3), ReadUInt16BE(f, o + 5), ReadUInt16BE(f, o + 7)>>]

Decode(f) == [i \in 1..((Len(f) - 16) \div 9) |-> DecodeEntry(f, i - 1)]

(* C11: for every batch with light IDs and color components in [0, 65535],
   decoding the frame by the wire layout gives back the batch, entry for entry
   and in order (duplicated light IDs included), and every entry type byte is 0. *)
C11_EncodeRoundTrip ==
    encOut # None =>
        LET f == encOut[1] IN
        /\ Decode(f) = encIn
        /\ \A i \in 0..(Len(encIn) - 1) : f[16 + 9 * i + 1] = 0

\* three entries, the first two with the same light ID and different colors
C11_Witness ==
    /\ encOut # None
    /\ Len(encIn) = 3
    /\ encIn[1].lightId = encIn[2].lightId
    /\ encIn[1].color # encIn[2].color
    /\ encIn[3].lightId = 258

(* C12 as claimed: a batch of 3 lights gives a 43-byte frame whose bytes 16-17
   are the first light's ID and whose bytes 23-24 are the first light's B
   channel, both big-endian. *)
C12_ThreeLightsIdAt16 ==
    (encOut # None /\ Len(encIn) = 3) =>
        LET f == encOut[1] IN
        /\ Len(f) = 43
        /\ f[17] = encIn[1].lightId \div 256
        /\ f[18] = encIn[1].lightId % 256
        /\ f[24] = encIn[1].color[3] \div 256
        /\ f[25] = encIn[1].color[3] % 256

(* C12 amended: the frame has 43 bytes, byte 16 is the entry type 0, bytes 17-18
   are the first light's ID and bytes 23-24 its B channel, both big-endian. *)
C12_ThreeLightsIdAt17 ==
    (encOut # None /\ Len(encIn) = 3) =>
        LET f == encOut[1] IN
        /\ Len(f) = 43
        /\ f[17] = 0
        /\ f[18] = encIn[1].lightId \div 256
        /\ f[19] = encIn[1].lightId % 256
        /\ f[24] = encIn[1].color[3] \div 256
        /\ f[25] = encIn[1].color[3] % 256

C12_Witness ==
    /\ encOut # None
    /\ Len(encIn) = 3
    /\ encIn[1] = [lightId |-> 258, color |-> <<4660, 22136, 255>>]
    /\ encOut[1][18] = 1 /\ encOut[1][19] = 2
    /\ encOut[1][24] = 0 /\ encOut[1][25] = 255

(* C13: once connect() has been called with a host that does not parse as an IP
   address it has failed, and the controller is as constructed: no transport,
   no socket, no keepalive timer, not Connected, nothing emitted or written, and
   the throttle and the last accepted update untouched. *)
C13_InvalidHostRejected ==
    (~ParseOk(host) /\ pc # "idle") =>
        /\ pc = "rejected"
        /\ transport = "none"
        /\ ~socket
        /\ updateKeepaliveTimeout = None
        /\ ~opened /\ pendingEnd = 0
        /\ emitted = <<>>
        /\ writes = 0
        /\ ~skip /\ lastUpdate = None /\ lastUpdateTimestamp = None

\* the rejected connect(), followed by a sendUpdate and a close() of the caller
C13_Witness ==
    /\ host = "bridge.local"
    /\ pc = "rejected"
    /\ calls >= 1
    /\ closeCalls = <<"Disconnected">>

(* C14 as claimed: encoding raises no error for any light ID or color component,
   and a value v outside [0, 65535] is stored as v mod 65536 (big-endian) in its
   2-byte field, every other field being as for in-range values. *)
C14_TotalAndWraps ==
    encOut # None =>
        LET f == encOut[1] IN
        /\ f # Thrown
        /\ Len(f) = 16 + 9 * Len(encIn)
        /\ \A i \in 1..Len(encIn) :
              /\ ReadUInt16BE(f, 16 + 9 * (i - 1) + 1) = encIn[i].lightId % 65536
              /\ \A k \in 1..3 :
                    ReadUInt16BE(f, 16 + 9 * (i - 1) + 1 + 2 * k)
                        = encIn[i].color[k] % 65536


\* ---------------------------------------------------------------------------
\* C15: whenever a last update is stored, the frame most recently written is
\* its encoding and a timestamp is stored with it; a sendUpdate that is
\* admitted overwrites batch and timestamp (with the current time) in the
\* same step in which it transmits; no step without an admitted sendUpdate
\* changes either of them.
C15_LastAcceptedUpdate ==
    /\ [](lastUpdate # None =>
            /\ lastFrame = Some(Encode(lastUpdate[1]))
            /\ lastUpdateTimestamp # None
            /\ lastTx # None
            /\ lastTx[1] >= lastUpdateTimestamp[1])
    /\ [][connSent' # connSent =>
            /\ writes' = writes + 1
            /\ lastUpdate' # None
            /\ lastFrame' = Some(Encode(lastUpdate'[1]))
            /\ lastUpdateTimestamp' = Some(now)
            /\ lastTx' = Some(now)]_vars
    /\ [][connSent' = connSent => UNCHANGED <<lastUpdate, lastUpdateTimestamp>>]_vars

\* two admitted calls, then a keepalive retransmission of the stored batch
C15_Witness ==
    /\ connSent = 2
    /\ lastUpdate = Some(<<>>)
    /\ lastFrame = Some(Encode(<<>>))
    /\ lastTx # None /\ lastUpdateTimestamp # None
    /\ lastTx[1] > lastUpdateTimestamp[1]

\* ---------------------------------------------------------------------------
\* C16: a keepalive tick leaves the throttle flag, the last update and its
\* timestamp unchanged, and when the session is connected and the stored
\* update is older than the freshness window it transmits whatever the
\* throttle flag is.
C16_KeepaliveBypassesThrottle ==
    [][TickStep =>
        /\ UNCHANGED <<skip, lastUpdate, lastUpdateTimestamp, connCalls, connSent>>
        /\ (opened /\ socket /\ lastUpdate # None
              /\ now - lastUpdateTimestamp[1] > FreshnessWindow
            => /\ writes' = writes + 1
               /\ lastFrame' = Some(Encode(lastUpdate[1])))]_vars

\* a keepalive frame has gone out while the throttle flag says "drop next"
C16_Witness ==
    /\ opened /\ skip
    /\ writes >= 2
    /\ lastTx # None /\ lastUpdateTimestamp # None
    /\ lastTx[1] > lastUpdateTimestamp[1] + FreshnessWindow

\* ---------------------------------------------------------------------------
\* C17: a sendUpdate dropped by the throttle changes only the throttle flag;
\* one call transmits at most once; every frame written is the encoding of
\* the stored (admitted) batch, and a write outside a call leaves that batch
\* as it was.
C17_NoBuffering ==
    /\ [][(connCalls' # connCalls /\ connSent' = connSent) =>
            /\ skip /\ ~skip'
            /\ UNCHANGED <<lastUpdate, lastUpdateTimestamp, writes, lastFrame, lastTx>>]_vars
    /\ [][calls' # calls => writes' \in {writes, writes + 1}]_vars
    /\ [][writes' # writes =>
            /\ lastUpdate' # None
            /\ lastFrame' = Some(Encode(lastUpdate'[1]))
            /\ (calls' = calls => lastUpdate' = lastUpdate)]_vars

\* one admitted call, one dropped call, then a keepalive retransmission
C17_Witness ==
    /\ connCalls = 2 /\ connSent = 1
    /\ ~skip
    /\ writes = 2
    /\ lastTx # None /\ lastUpdateTimestamp # None
    /\ lastTx[1] > lastUpdateTimestamp[1]

\* ---------------------------------------------------------------------------
\* C18: sendUpdate while the session is not Connected changes nothing of the
\* throttle flag, the last update, its timestamp or the transport; the first
\* sendUpdate of a Connected session is transmitted.
C18_NotConnectedNoOp ==
    /\ [][(calls' # calls /\ SessionState # "Connected") =>
            UNCHANGED <<skip, lastUpdate, lastUpdateTimestamp, writes, lastFrame,
                        lastTx, connCalls, connSent>>]_vars
    /\ [][(calls' # calls /\ SessionState = "Connected" /\ connCalls = 0) =>
            /\ writes' = writes + 1
            /\ connSent' = 1]_vars

\* a call before the handshake, then the first connected call transmitted
C18_Witness ==
    /\ opened
    /\ calls = 2 /\ connCalls = 1 /\ connSent = 1
    /\ writes = 1

\* ---------------------------------------------------------------------------
\* C19: the notifications of one connect() are nothing, "connected", or
\* "connected" followed by one "close".
C19_NotificationOrdering ==
    emitted \in { <<>>, <<"connected">>, <<"connected", "close">> }

\* close() called during the handshake and again once connected
C19_Witness ==
    /\ closeCalls = <<"Handshaking", "Connected">>
    /\ emitted = <<"connected", "close">>

\* ---------------------------------------------------------------------------
\* C20: while opened, the socket is stored and the keepalive timer is set.
C20_OpenedImpliesSocketAndTimer ==
    opened => (socket /\ updateKeepaliveTimeout # None /\ pc = "resolved")

C20_Witness ==
    /\ opened /\ socket
    /\ updateKeepaliveTimeout # None
    /\ writes >= 1

====
